---- MODULE Spec2Model ----
(***************************************************************************)
(* The download command of src/src/stocks/cli.py: argument validation,     *)
(* ticker resolution, the batch loop over yf.download, the per-symbol       *)
(* normalisation of the response table and the merge-dedup-sort rewrite of  *)
(* the per-symbol CSV file.                                                  *)
(*                                                                           *)
(* Text (date expressions, ticker lists, symbols, column names, CSV cells)  *)
(* is a sequence of one-character strings, so that split, strip, upper,      *)
(* replace, endswith, int() and strptime are computed character by           *)
(* character as the code computes them.                                      *)
(***************************************************************************)
EXTENDS Integers, Sequences, FiniteSets, TLC

(***************************************************************************)
(* Bounds of the model.                                                     *)
(***************************************************************************)
\* Dates of price rows are the days 1..MaxDate of January 2024.
MaxDate == 3
\* A response table and a prior file hold at most MaxRows rows.
MaxRows == 2
\* The longest resolved ticker list of the batch runs.
MaxTickers == 250

(***************************************************************************)
(* Program constants.                                                       *)
(***************************************************************************)
\* cli.py:112  chunk_size = 100
chunk_size == 100
\* cli.py:49   'm' is a 30-day month
DaysPerMonth == 30
\* cli.py:51   'y' is a 365-day year
DaysPerYear == 365

(***************************************************************************)
(* Text helpers (Python str methods).                                       *)
(***************************************************************************)
DigitChars == <<"0", "1", "2", "3", "4", "5", "6", "7", "8", "9">>

IsDigit(c) == \E k \in 1..10 : DigitChars[k] = c

DigitVal(c) == (CHOOSE k \in 1..10 : DigitChars[k] = c) - 1

\* s[a:b] of Python for 0 <= a, b <= len(s)  (0-based, b exclusive)
Slice(s, a, b) == SubSeq(s, a + 1, b)

StartsWith(s, p) == Len(s) >= Len(p) /\ SubSeq(s, 1, Len(p)) = p

EndsWith(s, p) == Len(s) >= Len(p) /\ SubSeq(s, Len(s) - Len(p) + 1, Len(s)) = p

RECURSIVE DecimalValue(_)
DecimalValue(s) ==
  IF s = <<>> THEN 0
  ELSE 10 * DecimalValue(SubSeq(s, 1, Len(s) - 1)) + DigitVal(s[Len(s)])

AllDigits(s) == Len(s) >= 1 /\ \A k \in 1..Len(s) : IsDigit(s[k])

\* str.upper() on the letters the inputs use
UpperChar(c) ==
  CASE c = "a" -> "A" [] c = "b" -> "B" [] c = "c" -> "C" [] c = "d" -> "D"
    [] c = "m" -> "M" [] c = "x" -> "X" [] c = "y" -> "Y" [] OTHER -> c

\* str.lower() on the letters the inputs use
LowerChar(c) ==
  CASE c = "A" -> "a" [] c = "B" -> "b" [] c = "C" -> "c" [] c = "D" -> "d"
    [] c = "M" -> "m" [] c = "X" -> "x" [] c = "Y" -> "y" [] OTHER -> c

Upper(s) == [k \in 1..Len(s) |-> UpperChar(s[k])]

Lower(s) == [k \in 1..Len(s) |-> LowerChar(s[k])]

RECURSIVE LStrip(_)
LStrip(s) == IF s # <<>> /\ s[1] = " " THEN LStrip(Tail(s)) ELSE s

RECURSIVE RStrip(_)
RStrip(s) ==
  IF s # <<>> /\ s[Len(s)] = " " THEN RStrip(SubSeq(s, 1, Len(s) - 1)) ELSE s

\* str.strip()
Strip(s) == LStrip(RStrip(s))

\* str.split(sep) for a one-character separator: never the empty list
RECURSIVE Split(_, _)
Split(s, sep) ==
  IF \A k \in 1..Len(s) : s[k] # sep THEN <<s>>
  ELSE LET p == CHOOSE k \in 1..Len(s) : s[k] = sep /\ \A h \in 1..(k - 1) : s[h] # sep
       IN  <<SubSeq(s, 1, p - 1)>> \o Split(SubSeq(s, p + 1, Len(s)), sep)

\* str.replace(old, new) for one-character old and new
Replace(s, old, new) == [k \in 1..Len(s) |-> IF s[k] = old THEN new ELSE s[k]]

(***************************************************************************)
(* parse_date (cli.py:30-58).  The result is a record: kind "rel" is        *)
(* now + days, kind "abs" is midnight US/Eastern of y-m-d, kind             *)
(* "BadParameter" is click.BadParameter and kind "ValueError" is the        *)
(* uncaught ValueError of datetime.strptime.                                *)
(***************************************************************************)
\* int(value_part): an optional sign and at least one digit, else ValueError
IsPyInt(s) ==
  IF s # <<>> /\ s[1] \in {"+", "-"} THEN AllDigits(Tail(s)) ELSE AllDigits(s)

PyInt(s) ==
  IF s[1] = "-" THEN 0 - DecimalValue(Tail(s))
  ELSE IF s[1] = "+" THEN DecimalValue(Tail(s))
  ELSE DecimalValue(s)

IsLeap(y) == (y % 4 = 0 /\ y % 100 # 0) \/ y % 400 = 0

DaysInMonth(y, m) ==
  IF m = 2 THEN (IF IsLeap(y) THEN 29 ELSE 28)
  ELSE IF m \in {4, 6, 9, 11} THEN 30 ELSE 31

\* datetime.strptime(date_str, '%Y-%m-%d'): four digits, '-', a month of one
\* or two digits, '-', a day of one or two digits, and a date that exists
strptime(date_str) ==
  LET parts == Split(date_str, "-")
  IN  IF /\ Len(parts) = 3
         /\ Len(parts[1]) = 4 /\ AllDigits(parts[1])
         /\ Len(parts[2]) \in {1, 2} /\ AllDigits(parts[2])
         /\ Len(parts[3]) \in {1, 2} /\ AllDigits(parts[3])
         /\ DecimalValue(parts[1]) >= 1
         /\ DecimalValue(parts[2]) \in 1..12
         /\ DecimalValue(parts[3]) \in
              1..DaysInMonth(DecimalValue(parts[1]), DecimalValue(parts[2]))
      THEN [kind |-> "abs", y |-> DecimalValue(parts[1]),
            m |-> DecimalValue(parts[2]), d |-> DecimalValue(parts[3])]
      ELSE [kind |-> "ValueError"]

parse_date(date_str) ==
  IF date_str = <<"n", "o", "w">> THEN [kind |-> "rel", days |-> 0]
  ELSE IF StartsWith(date_str, <<"_">>) \/ StartsWith(date_str, <<"+">>)
  THEN LET sign       == IF StartsWith(date_str, <<"_">>) THEN 0 - 1 ELSE 1
           value_part == Slice(date_str, 1, Len(date_str) - 1)
           unit       == date_str[Len(date_str)]
       IN  IF ~IsPyInt(value_part) THEN [kind |-> "BadParameter"]
           ELSE IF unit = "d" THEN [kind |-> "rel", days |-> PyInt(value_part) * sign]
           ELSE IF unit = "m"
                THEN [kind |-> "rel", days |-> PyInt(value_part) * DaysPerMonth * sign]
           ELSE IF unit = "y"
                THEN [kind |-> "rel", days |-> PyInt(value_part) * DaysPerYear * sign]
           ELSE [kind |-> "BadParameter"]
  ELSE strptime(date_str)

DateFailed(r) == r.kind \in {"BadParameter", "ValueError"}

(***************************************************************************)
(* click.Choice([...], case_sensitive=False) of --interval (cli.py:77-79):  *)
(* the value is matched ignoring case and the declared choice is passed on. *)
(***************************************************************************)
IntervalChoices ==
  { <<"1", "d">>, <<"6", "0", "m">>, <<"1", "5", "m">>, <<"5", "m">>,
    <<"2", "m">>, <<"1", "m">> }

ChoiceAccepts(value) == Lower(value) \in IntervalChoices

ChoiceConvert(value) == Lower(value)

(***************************************************************************)
(* Ticker resolution (cli.py:88-106).  A ticker source is a record: kind    *)
(* "inline" with the option's text, kind "file" with the cells of the       *)
(* file's Symbol column, kind "dir" with the Symbol column of every *.csv   *)
(* file of the directory.  The empty cell <<>> is a missing value (NaN).    *)
(***************************************************************************)
\* Series.dropna()
DropNa(column) == SelectSeq(column, LAMBDA cell : cell # <<>>)

\* df['Symbol'].dropna().astype(str).str.upper().tolist()
SymbolColumn(column) == [k \in 1..Len(DropNa(column)) |-> Upper(DropNa(column)[k])]

\* [t.strip().upper() for t in ticker.split(',')]
InlineTickers(text) ==
  LET parts == Split(text, ",")
  IN  [k \in 1..Len(parts) |-> Upper(Strip(parts[k]))]

RECURSIVE Flatten(_)
Flatten(seqs) == IF seqs = <<>> THEN <<>> ELSE Head(seqs) \o Flatten(Tail(seqs))

Range(s) == { s[k] : k \in 1..Len(s) }

\* list(set(ticker_list)): the elements once each, in an order Python does
\* not specify
Orderings(S) ==
  { s \in [1..Cardinality(S) -> S] : \A a, b \in 1..Cardinality(S) : a # b => s[a] # s[b] }

DirTickerLists(columns) ==
  Orderings(Range(Flatten([k \in 1..Len(columns) |-> SymbolColumn(columns[k])])))

(***************************************************************************)
(* Data frames: a record of the column names in order and the rows, each    *)
(* row a function from column name to value.  A value is a day number (the  *)
(* Date column), a number, or NaN.                                          *)
(***************************************************************************)
NaN == 0 - 1

DateCol == <<"Date">>

Frame(columns, rows) == [columns |-> columns, rows |-> rows]

\* DataFrame.empty: no rows or no columns
IsEmpty(df) == Len(df.rows) = 0 \/ Len(df.columns) = 0

RECURSIVE FirstOccurrences(_)
FirstOccurrences(s) ==
  IF s = <<>> THEN <<>>
  ELSE LET init == FirstOccurrences(SubSeq(s, 1, Len(s) - 1))
       IN  IF s[Len(s)] \in Range(init) THEN init ELSE init \o <<s[Len(s)]>>

\* the elements of a sequence once each, in the order of first occurrence
Distinct(s) == IF Cardinality(Range(s)) = Len(s) THEN s ELSE FirstOccurrences(s)

(***************************************************************************)
(* The remote provider (cli.py:118-124).  provider.dates are the Date       *)
(* index of the rows it returns, in the order it returns them;              *)
(* provider.absent are the symbols it returns no columns for.  The value of *)
(* every price cell of row r is NewPrice + r.                               *)
(***************************************************************************)
ProviderFields == <<"Adj Close", "Close", "Volume">>

OldPrice == 100

NewPrice == 200

\* the response of yf.download(tickers=chunk, ...): the index name, and
\* MultiIndex columns (field, symbol), field-major, one per requested symbol
Download(prov, tickers, ivl) ==
  LET syms == SelectSeq(Distinct(tickers), LAMBDA s : s \notin prov.absent)
      cols == [k \in 1..(Len(ProviderFields) * Len(syms)) |->
                 << ProviderFields[((k - 1) \div Len(syms)) + 1],
                    syms[((k - 1) % Len(syms)) + 1] >>]
  IN  [index_name |-> IF ivl = <<"1", "d">> THEN "Date" ELSE "Datetime",
       index      |-> prov.dates,
       columns    |-> cols,
       rows       |-> [r \in 1..Len(prov.dates) |-> [c \in Range(cols) |-> NewPrice + r]]]

EmptyResponse == [index_name |-> "Date", index |-> <<>>, columns |-> <<>>, rows |-> <<>>]

\* cli.py:126  df_chunk.empty
ResponseEmpty(resp) == Len(resp.index) = 0 \/ Len(resp.columns) = 0

\* cli.py:131-139: flatten the MultiIndex columns to "<field>_<symbol>",
\* reset_index, and rename the index column to Date
FlatName(col) == <<col[1], "_">> \o col[2]

FlattenReset(resp) ==
  LET flat == [k \in 1..Len(resp.columns) |-> FlatName(resp.columns[k])]
      idx  == IF resp.index_name \in {"Datetime", "index"} THEN DateCol
              ELSE <<resp.index_name>>
  IN  Frame(<<idx>> \o flat,
            [r \in 1..Len(resp.rows) |->
               [c \in {idx} \cup Range(flat) |->
                  IF c = idx THEN resp.index[r]
                  ELSE resp.rows[r][CHOOSE col \in Range(resp.columns) : FlatName(col) = c]]])

(***************************************************************************)
(* Normalisation of one symbol (cli.py:143-166).                            *)
(***************************************************************************)
\* cli.py:146-154
rename_map(symbol, c) ==
  CASE c = <<"Open", "_">> \o symbol       -> <<"Open">>
    [] c = <<"High", "_">> \o symbol       -> <<"High">>
    [] c = <<"Low", "_">> \o symbol        -> <<"Low">>
    [] c = <<"Close", "_">> \o symbol      -> <<"Close">>
    [] c = <<"Adj Close", "_">> \o symbol  -> <<"Adj Close">>
    [] c = <<"Adj_Close", "_">> \o symbol  -> <<"Adj Close">>
    [] c = <<"Volume", "_">> \o symbol     -> <<"Volume">>
    [] OTHER -> c

\* cli.py:164
ordered ==
  << <<"Date">>, <<"Ticker">>, <<"Open">>, <<"High">>, <<"Low">>, <<"Close">>,
     <<"Adj Close">>, <<"Volume">> >>

\* cli.py:143-166: the columns that end with "_<symbol>", renamed, and of
\* those the canonical ones in canonical order; every row of the table
Normalize(df_chunk, symbol) ==
  LET cols      == <<DateCol>> \o
                   SelectSeq(df_chunk.columns, LAMBDA c : EndsWith(c, <<"_">> \o symbol))
      renamed   == [k \in 1..Len(cols) |-> rename_map(symbol, cols[k])]
      available == SelectSeq(ordered, LAMBDA c : c \in Range(renamed))
  IN  Frame(available,
            [r \in 1..Len(df_chunk.rows) |->
               [c \in Range(available) |->
                  df_chunk.rows[r][CHOOSE o \in Range(cols) : rename_map(symbol, o) = c]]])

\* cli.py:168-169
safe_symbol(symbol) == Replace(Replace(Replace(symbol, "/", "_"), "\\", "_"), ":", "_")

SavePath(save_dir, symbol) == save_dir \o <<safe_symbol(symbol) \o <<".csv">>>>

(***************************************************************************)
(* The CSV file of a symbol.  A file's content is its lines, the header     *)
(* first; a line is its cells; a cell is text.  to_csv writes a day number  *)
(* as 2024-01-DD, a number in decimal and NaN as the empty cell; read_csv   *)
(* (parse_dates=['Date']) parses them back.                                 *)
(***************************************************************************)
RECURSIVE ToDigits(_)
ToDigits(n) ==
  IF n < 10 THEN <<DigitChars[n + 1]>>
  ELSE ToDigits(n \div 10) \o <<DigitChars[(n % 10) + 1]>>

FormatDate(d) ==
  <<"2", "0", "2", "4", "-", "0", "1", "-">> \o
  (IF d < 10 THEN <<"0">> \o ToDigits(d) ELSE ToDigits(d))

ParseDateText(t) == strptime(t).d

FormatNum(v) == IF v = NaN THEN <<>> ELSE ToDigits(v)

ParseNum(t) == IF t = <<>> THEN NaN ELSE DecimalValue(t)

FormatCell(c, v) == IF c = DateCol THEN FormatDate(v) ELSE FormatNum(v)

ParseCell(c, t) == IF c = DateCol THEN ParseDateText(t) ELSE ParseNum(t)

\* cli.py:180  df.to_csv(save_path, index=False)
to_csv(frame) ==
  <<frame.columns>> \o
  [r \in 1..Len(frame.rows) |->
     [k \in 1..Len(frame.columns) |->
        FormatCell(frame.columns[k], frame.rows[r][frame.columns[k]])]]

\* pd.read_csv raises on a file with no header line (EmptyDataError) or with
\* no Date column (parse_dates names a missing column)
Readable(content) == Len(content) >= 1 /\ DateCol \in Range(content[1])

\* cli.py:173  pd.read_csv(save_path, parse_dates=['Date'])
read_csv(content) ==
  LET header == content[1]
  IN  Frame(header,
            [r \in 1..(Len(content) - 1) |->
               [c \in Range(header) |->
                  ParseCell(c, content[r + 1][CHOOSE k \in 1..Len(header) : header[k] = c])]])

(***************************************************************************)
(* The merge (cli.py:174-176).                                              *)
(***************************************************************************)
\* pd.concat([a, b], ignore_index=True): the union of the columns, a's
\* first; a's rows then b's; NaN where a row has no such column
concat(a, b) ==
  LET cols == a.columns \o SelectSeq(b.columns, LAMBDA c : c \notin Range(a.columns))
      fill(row) == [c \in Range(cols) |-> IF c \in DOMAIN row THEN row[c] ELSE NaN]
  IN  Frame(cols,
            [r \in 1..(Len(a.rows) + Len(b.rows)) |->
               IF r <= Len(a.rows) THEN fill(a.rows[r]) ELSE fill(b.rows[r - Len(a.rows)])])

RECURSIVE KeepLast(_)
\* of the rows with the same Date only the last one, the order kept
KeepLast(rows) ==
  IF rows = <<>> THEN <<>>
  ELSE IF \E h \in 2..Len(rows) : rows[h][DateCol] = rows[1][DateCol]
       THEN KeepLast(Tail(rows))
       ELSE <<rows[1]>> \o KeepLast(Tail(rows))

RECURSIVE KeepFirst(_)
KeepFirst(rows) ==
  IF rows = <<>> THEN <<>>
  ELSE IF \E h \in 1..(Len(rows) - 1) : rows[h][DateCol] = rows[Len(rows)][DateCol]
       THEN KeepFirst(SubSeq(rows, 1, Len(rows) - 1))
       ELSE KeepFirst(SubSeq(rows, 1, Len(rows) - 1)) \o <<rows[Len(rows)]>>

\* the slip keep='first': the stored record wins over the incoming one
drop_duplicates_keep_first(frame) == Frame(frame.columns, KeepFirst(frame.rows))

\* df.drop_duplicates(subset=['Date'], keep='last', inplace=True)
drop_duplicates(frame) == Frame(frame.columns, KeepLast(frame.rows))

RECURSIVE SortRows(_)
\* ascending by Date (rows of equal Date in their given order)
SortRows(rows) ==
  IF rows = <<>> THEN <<>>
  ELSE LET m == CHOOSE k \in 1..Len(rows) :
                  /\ \A h \in 1..Len(rows) : rows[k][DateCol] <= rows[h][DateCol]
                  /\ \A h \in 1..(k - 1) : rows[h][DateCol] # rows[k][DateCol]
       IN  <<rows[m]>> \o
           SortRows(SubSeq(rows, 1, m - 1) \o SubSeq(rows, m + 1, Len(rows)))

\* df.sort_values(by='Date', inplace=True)
sort_values(frame) == Frame(frame.columns, SortRows(frame.rows))

\* cli.py:174-176
Merge(old, new) == sort_values(drop_duplicates(concat(old, new)))

(***************************************************************************)
(* State of one run of the download command.                                *)
(***************************************************************************)
VARIABLES
  pc,           \* where the run is
  ticker,       \* --ticker: the ticker source
  start,        \* --start
  end,          \* --end
  interval,     \* --interval
  provider,     \* the data the remote provider holds
  dirs,         \* the directories that exist under the workspace
  files,        \* the files that exist: path -> content
  ticker_list,  \* cli.py:88-106
  start_dt,     \* cli.py:108
  end_dt,       \* cli.py:109
  i,            \* cli.py:111
  chunk,        \* cli.py:115
  requests,     \* the tickers= argument of every yf.download call so far
  df_chunk,     \* cli.py:118-139
  pos,          \* the position in chunk of the for loop of cli.py:142
  symbol,       \* cli.py:142
  df_symbol,    \* cli.py:144-166
  save_path,    \* cli.py:169
  existed,      \* cli.py:171  os.path.isfile(save_path)
  df_old,       \* cli.py:173
  df            \* cli.py:174-178

vars ==
  << pc, ticker, start, end, interval, provider, dirs, files, ticker_list,
     start_dt, end_dt, i, chunk, requests, df_chunk, pos, symbol, df_symbol,
     save_path, existed, df_old, df >>

NoFrame == Frame(<<>>, <<>>)

Unset == [kind |-> "unset"]

\* cli.py:83-84  ws/data/<interval>, relative to the workspace
SaveDir(ivl) == <<"data", ivl>>

(***************************************************************************)
(* Inputs.                                                                  *)
(***************************************************************************)
DefaultStart == <<"_", "6", "d">>

DefaultEnd == <<"+", "1", "d">>

DefaultInterval == <<"1", "d">>

DateExprs ==
  { DefaultStart, DefaultEnd, <<"n", "o", "w">>, <<"_", "3", "m">>, <<"_", "1", "y">>,
    <<"2", "0", "2", "4", "-", "0", "1", "-", "0", "2">>,
    <<"_", "6", "w">>, <<"_", "x", "d">>, <<"_">>,
    <<"2", "0", "2", "4", "-", "1", "3", "-", "0", "1">>,
    <<"2", "0", "2", "3", "-", "0", "2", "-", "2", "9">>, <<>> }

IntervalInputs == { DefaultInterval, <<"1", "D">>, <<"6", "0", "m">>, <<"1", "w">> }

Inline(text) == [kind |-> "inline", text |-> text]

File(column) == [kind |-> "file", column |-> column]

Dir(columns) == [kind |-> "dir", columns |-> columns]

\* the ticker lists a source can resolve to (cli.py:88-106)
Resolutions(src) ==
  IF src.kind = "dir" THEN DirTickerLists(src.columns)
  ELSE IF src.kind = "file" THEN {SymbolColumn(src.column)}
  ELSE {InlineTickers(src.text)}

ShortSources ==
  { Inline(<<"a", "/", "b", ",", "A", ":", "B">>),
    Inline(<<"x", ",", " ", "x">>),
    Inline(<<"x", ",", "y">>),
    File(<< <<"a", "_", "b">>, <<>>, <<"b">> >>),
    File(<< <<>> >>),
    Dir(<< << <<"x">> >>, << <<"y">>, <<"X">> >> >>) }

MergeSources ==
  { Inline(<<"a", "/", "b", ",", "A", ":", "B">>), Inline(<<"x", ",", " ", "x">>) }

\* the ticker list S1, ..., Sn, as a reference file holds it
NumberedSource(n) == File([k \in 1..n |-> <<"s">> \o ToDigits(k)])

DateSeqs(n) == UNION { [1..len -> 1..MaxDate] : len \in 1..n }

\* a file an earlier run wrote: any rows, in any order
StoredColumns == << <<"Date">>, <<"Open">>, <<"Close">> >>

StoredFrame(dates) ==
  Frame(StoredColumns,
        [r \in 1..Len(dates) |->
           [c \in Range(StoredColumns) |-> IF c = DateCol THEN dates[r] ELSE OldPrice + r]])

StoredContents == { to_csv(StoredFrame(d)) : d \in DateSeqs(MaxRows) \cup {<<>>} }

NoFiles == [p \in {} |-> <<>>]

Symbols(src) == UNION { Range(tl) : tl \in Resolutions(src) }

\* no file, or one file of one of the symbols
Stores(src) ==
  {NoFiles} \cup
  { (SavePath(SaveDir(DefaultInterval), s) :> c) : s \in Symbols(src), c \in StoredContents }

\* any rows in any order, and at most one symbol without columns
Providers(src) ==
  { [dates |-> d, absent |-> a] :
      d \in DateSeqs(MaxRows), a \in {{}} \cup { {s} : s \in Symbols(src) } }

InitLocals ==
  /\ pc = "click"
  /\ dirs = {}
  /\ ticker_list = <<>>
  /\ start_dt = Unset
  /\ end_dt = Unset
  /\ i = 0
  /\ chunk = <<>>
  /\ requests = <<>>
  /\ df_chunk = NoFrame
  /\ pos = 0
  /\ symbol = <<>>
  /\ df_symbol = NoFrame
  /\ save_path = <<>>
  /\ existed = FALSE
  /\ df_old = NoFrame
  /\ df = NoFrame

\* every combination of the options, one symbol, an empty store
InitArgs ==
  /\ start \in DateExprs
  /\ end \in DateExprs
  /\ interval \in IntervalInputs
  /\ ticker = Inline(<<"x">>)
  /\ provider = [dates |-> <<1>>, absent |-> {}]
  /\ files = NoFiles
  /\ InitLocals

\* the default options, a short ticker list, any response, an empty store
InitFirst ==
  /\ start = DefaultStart
  /\ end = DefaultEnd
  /\ interval = DefaultInterval
  /\ ticker \in ShortSources
  /\ provider \in Providers(ticker)
  /\ files = NoFiles
  /\ InitLocals

\* the default options, two tickers, any response for both, any prior file
InitMerge ==
  /\ start = DefaultStart
  /\ end = DefaultEnd
  /\ interval = DefaultInterval
  /\ ticker \in MergeSources
  /\ provider \in { pr \in Providers(ticker) : pr.absent = {} }
  /\ files \in Stores(ticker)
  /\ InitLocals

\* the lengths at and next to a multiple of chunk_size, and the longest
BatchLengths ==
  { n \in 0..MaxTickers : n % chunk_size \in {0, 1, chunk_size - 1} \/ n = MaxTickers }

\* a ticker list of several batches, an empty store
InitLong ==
  /\ start = DefaultStart
  /\ end = DefaultEnd
  /\ interval = DefaultInterval
  /\ ticker \in { NumberedSource(n) : n \in BatchLengths }
  /\ provider = [dates |-> <<1>>, absent |-> {}]
  /\ files = NoFiles
  /\ InitLocals

Init == InitArgs \/ InitFirst \/ InitMerge

(***************************************************************************)
(* The run.                                                                 *)
(***************************************************************************)
\* cli.py:77-79: click rejects an --interval that is no choice before the
\* body of download runs
ClickRejects ==
  /\ pc = "click"
  /\ ~ChoiceAccepts(interval)
  /\ pc' = "usage_error"
  /\ UNCHANGED << ticker, start, end, interval, provider, dirs, files, ticker_list,
                  start_dt, end_dt, i, chunk, requests, df_chunk, pos, symbol,
                  df_symbol, save_path, existed, df_old, df >>

ClickAccepts ==
  /\ pc = "click"
  /\ ChoiceAccepts(interval)
  /\ interval' = ChoiceConvert(interval)
  /\ pc' = "makedirs"
  /\ UNCHANGED << ticker, start, end, provider, dirs, files, ticker_list,
                  start_dt, end_dt, i, chunk, requests, df_chunk, pos, symbol,
                  df_symbol, save_path, existed, df_old, df >>

\* cli.py:83-85  os.makedirs(save_dir, exist_ok=True)
MakeDirs ==
  /\ pc = "makedirs"
  /\ dirs' = dirs \cup {<<"data">>, SaveDir(interval)}
  /\ pc' = "resolve"
  /\ UNCHANGED << ticker, start, end, interval, provider, files, ticker_list,
                  start_dt, end_dt, i, chunk, requests, df_chunk, pos, symbol,
                  df_symbol, save_path, existed, df_old, df >>

\* cli.py:88-106
ResolveTickers ==
  /\ pc = "resolve"
  /\ ticker_list' \in Resolutions(ticker)
  /\ pc' = "parse_start"
  /\ UNCHANGED << ticker, start, end, interval, provider, dirs, files,
                  start_dt, end_dt, i, chunk, requests, df_chunk, pos, symbol,
                  df_symbol, save_path, existed, df_old, df >>

\* cli.py:108: parse_date(start) returns or raises
ParseStart ==
  /\ pc = "parse_start"
  /\ IF DateFailed(parse_date(start))
     THEN pc' = "date_error" /\ UNCHANGED start_dt
     ELSE pc' = "parse_end" /\ start_dt' = parse_date(start)
  /\ UNCHANGED << ticker, start, end, interval, provider, dirs, files, ticker_list,
                  end_dt, i, chunk, requests, df_chunk, pos, symbol,
                  df_symbol, save_path, existed, df_old, df >>

\* cli.py:109-112: parse_date(end) returns or raises; i = 0
ParseEnd ==
  /\ pc = "parse_end"
  /\ IF DateFailed(parse_date(end))
     THEN pc' = "date_error" /\ UNCHANGED << end_dt, i >>
     ELSE pc' = "loop" /\ end_dt' = parse_date(end) /\ i' = 0
  /\ UNCHANGED << ticker, start, end, interval, provider, dirs, files, ticker_list,
                  start_dt, chunk, requests, df_chunk, pos, symbol,
                  df_symbol, save_path, existed, df_old, df >>

\* cli.py:114: the while condition is false
LoopExit ==
  /\ pc = "loop"
  /\ ~(i < Len(ticker_list))
  /\ pc' = "done"
  /\ UNCHANGED << ticker, start, end, interval, provider, dirs, files, ticker_list,
                  start_dt, end_dt, i, chunk, requests, df_chunk, pos, symbol,
                  df_symbol, save_path, existed, df_old, df >>

\* the slip ticker_list[i:i + chunk_size - 1]
NextChunkOneShort ==
  Slice(ticker_list, i, IF i + chunk_size - 1 < Len(ticker_list)
                        THEN i + chunk_size - 1 ELSE Len(ticker_list))

\* cli.py:115  ticker_list[i:i + chunk_size]
NextChunk == Slice(ticker_list, i, IF i + chunk_size < Len(ticker_list)
                                   THEN i + chunk_size ELSE Len(ticker_list))

\* cli.py:115-124: yf.download raises (a transport-level error); nothing
\* catches it
FetchRaises ==
  /\ pc = "loop"
  /\ i < Len(ticker_list)
  /\ chunk' = NextChunk
  /\ requests' = Append(requests, chunk')
  /\ pc' = "fetch_error"
  /\ UNCHANGED << ticker, start, end, interval, provider, dirs, files, ticker_list,
                  start_dt, end_dt, i, df_chunk, pos, symbol,
                  df_symbol, save_path, existed, df_old, df >>

\* the slip of an empty response that is logged and then processed like any
\* other: no i += chunk_size, no continue
FetchEmptyFallsThrough ==
  /\ pc = "loop"
  /\ i < Len(ticker_list)
  /\ chunk' = NextChunk
  /\ requests' = Append(requests, chunk')
  /\ \E resp \in {EmptyResponse, Download(provider, chunk', interval)} :
       /\ ResponseEmpty(resp)
       /\ df_chunk' = Frame(<<DateCol>>, <<>>)
  /\ pos' = 1
  /\ pc' = "symbol"
  /\ UNCHANGED << ticker, start, end, interval, provider, dirs, files, ticker_list,
                  start_dt, end_dt, i, symbol,
                  df_symbol, save_path, existed, df_old, df >>

\* cli.py:115-129: the response is empty; i += chunk_size; continue
FetchEmpty ==
  /\ pc = "loop"
  /\ i < Len(ticker_list)
  /\ chunk' = NextChunk
  /\ requests' = Append(requests, chunk')
  /\ \E resp \in {EmptyResponse, Download(provider, chunk', interval)} :
       /\ ResponseEmpty(resp)
       /\ df_chunk' = Frame(resp.columns, resp.rows)
  /\ i' = i + chunk_size
  /\ pc' = "loop"
  /\ UNCHANGED << ticker, start, end, interval, provider, dirs, files, ticker_list,
                  start_dt, end_dt, pos, symbol,
                  df_symbol, save_path, existed, df_old, df >>

\* cli.py:115-139: the response has data
FetchTable ==
  /\ pc = "loop"
  /\ i < Len(ticker_list)
  /\ chunk' = NextChunk
  /\ requests' = Append(requests, chunk')
  /\ ~ResponseEmpty(Download(provider, chunk', interval))
  /\ df_chunk' = FlattenReset(Download(provider, chunk', interval))
  /\ pos' = 1
  /\ pc' = "symbol"
  /\ UNCHANGED << ticker, start, end, interval, provider, dirs, files, ticker_list,
                  start_dt, end_dt, i, symbol,
                  df_symbol, save_path, existed, df_old, df >>

\* every file of the store has a header with a Date column, so read_csv
\* (cli.py:173) does not raise in a run
CanRead == LET path == SavePath(SaveDir(interval), chunk[pos])
           IN  path \in DOMAIN files => Readable(files[path])

\* cli.py:142-178 for the symbol at pos: normalise, and merge with the file
\* when there is one
Prepare ==
  /\ symbol' = chunk[pos]
  /\ df_symbol' = Normalize(df_chunk, symbol')
  /\ save_path' = SavePath(SaveDir(interval), symbol')
  /\ existed' = (save_path' \in DOMAIN files)
  /\ df_old' = IF existed' THEN read_csv(files[save_path']) ELSE df_old
  /\ df' = IF existed' THEN Merge(df_old', df_symbol') ELSE df_symbol'

\* the files after a write of content to path
Written(fs, path, content) == (path :> content) @@ fs

\* cli.py:142-181: one pass of the for loop
ProcessSymbol ==
  /\ pc = "symbol"
  /\ pos <= Len(chunk)
  /\ CanRead
  /\ Prepare
  /\ files' = Written(files, save_path', to_csv(df'))
  /\ pos' = pos + 1
  /\ UNCHANGED << pc, ticker, start, end, interval, provider, dirs, ticker_list,
                  start_dt, end_dt, i, chunk, requests, df_chunk >>

\* cli.py:183: the for loop is over; i += chunk_size
EndChunk ==
  /\ pc = "symbol"
  /\ pos > Len(chunk)
  /\ i' = i + chunk_size
  /\ pc' = "loop"
  /\ UNCHANGED << ticker, start, end, interval, provider, dirs, files, ticker_list,
                  start_dt, end_dt, chunk, requests, df_chunk, pos, symbol,
                  df_symbol, save_path, existed, df_old, df >>

Next ==
  \/ ClickRejects
  \/ ClickAccepts
  \/ MakeDirs
  \/ ResolveTickers
  \/ ParseStart
  \/ ParseEnd
  \/ LoopExit
  \/ FetchRaises
  \/ FetchEmpty
  \/ FetchTable
  \/ ProcessSymbol
  \/ EndChunk

Spec == Init /\ [][Next]_vars

\* cli.py:142-178: the pass of the for loop up to the write
MergeSymbol ==
  /\ pc = "symbol"
  /\ pos <= Len(chunk)
  /\ CanRead
  /\ Prepare
  /\ pc' = "to_csv"
  /\ UNCHANGED << ticker, start, end, interval, provider, dirs, files, ticker_list,
                  start_dt, end_dt, i, chunk, requests, df_chunk, pos >>

\* cli.py:180: to_csv opens save_path for writing, which creates or truncates it
ToCsvOpen ==
  /\ pc = "to_csv"
  /\ files' = Written(files, save_path, <<>>)
  /\ pc' = "writing"
  /\ UNCHANGED << ticker, start, end, interval, provider, dirs, ticker_list,
                  start_dt, end_dt, i, chunk, requests, df_chunk, pos, symbol,
                  df_symbol, save_path, existed, df_old, df >>

\* cli.py:180: the next line of the text reaches the file
ToCsvWrite ==
  /\ pc = "writing"
  /\ Len(files[save_path]) < Len(to_csv(df))
  /\ files' = Written(files, save_path,
                      Append(files[save_path], to_csv(df)[Len(files[save_path]) + 1]))
  /\ UNCHANGED << pc, ticker, start, end, interval, provider, dirs, ticker_list,
                  start_dt, end_dt, i, chunk, requests, df_chunk, pos, symbol,
                  df_symbol, save_path, existed, df_old, df >>

\* cli.py:180-181: every line is written; the file is closed
ToCsvClose ==
  /\ pc = "writing"
  /\ Len(files[save_path]) = Len(to_csv(df))
  /\ pos' = pos + 1
  /\ pc' = "symbol"
  /\ UNCHANGED << ticker, start, end, interval, provider, dirs, files, ticker_list,
                  start_dt, end_dt, i, chunk, requests, df_chunk, symbol,
                  df_symbol, save_path, existed, df_old, df >>

\* the process is terminated, wherever the run is
Kill ==
  /\ pc \notin {"usage_error", "date_error", "fetch_error", "done", "killed"}
  /\ pc' = "killed"
  /\ UNCHANGED << ticker, start, end, interval, provider, dirs, files, ticker_list,
                  start_dt, end_dt, i, chunk, requests, df_chunk, pos, symbol,
                  df_symbol, save_path, existed, df_old, df >>

\* the run with the write of cli.py:180 line by line, and termination
NextKill ==
  \/ ClickRejects
  \/ ClickAccepts
  \/ MakeDirs
  \/ ResolveTickers
  \/ ParseStart
  \/ ParseEnd
  \/ LoopExit
  \/ FetchRaises
  \/ FetchEmpty
  \/ FetchTable
  \/ MergeSymbol
  \/ ToCsvOpen
  \/ ToCsvWrite
  \/ ToCsvClose
  \/ EndChunk
  \/ Kill

SpecKill == Init /\ [][NextKill]_vars

\* the runs over several batches: the program takes its next step, and every
\* yf.download call returns or raises
InitBatch == InitArgs \/ InitLong

SpecBatch == InitBatch /\ [][Next]_vars /\ WF_vars(Next)

(***************************************************************************)
(* Vocabulary of the properties.                                            *)
(***************************************************************************)
\* a pass of the for loop has completed: save_path holds what it wrote
Saved == pc \in {"symbol", "loop", "done"} /\ save_path # <<>>

DateList(frame) == [r \in 1..Len(frame.rows) |-> frame.rows[r][DateCol]]

DateSet(frame) == Range(DateList(frame))

StrictlyAscending(s) == \A a, b \in 1..Len(s) : a < b => s[a] < s[b]

\* the series a file holds
Persisted(path) == read_csv(files[path])

\* the last row of a frame with the given Date
LastRow(frame, d) ==
  frame.rows[CHOOSE r \in 1..Len(frame.rows) :
               /\ frame.rows[r][DateCol] = d
               /\ \A h \in (r + 1)..Len(frame.rows) : frame.rows[h][DateCol] # d]

\* the row holds the values of the given record, and NaN in every other column
Carries(row, rec) ==
  \A c \in DOMAIN row : row[c] = IF c \in DOMAIN rec THEN rec[c] ELSE NaN

\* the table of the batch has no column for the symbol
NoMatchingColumns(table, sym) ==
  \A c \in Range(table.columns) : ~EndsWith(c, <<"_">> \o sym)

PathOf(sym) == SavePath(SaveDir(interval), sym)

(***************************************************************************)
(* C1.  After every merge-and-persist of a symbol, the first write          *)
(* included, the Date values of the persisted series are unique and         *)
(* strictly ascending in storage order.                                     *)
(***************************************************************************)
C1_DatesAscending == Saved => StrictlyAscending(DateList(Persisted(save_path)))

(***************************************************************************)
(* C2.  After a merge into a prior file the persisted series holds exactly  *)
(* one record for every Date of the prior series or of incoming and no      *)
(* other Date; a Date of incoming carries the values of its last incoming   *)
(* record, a Date of the prior series alone keeps its last stored record.   *)
(***************************************************************************)
C2_MergeUnionIncomingWins ==
  (Saved /\ existed) =>
    LET out == Persisted(save_path)
    IN  /\ DateSet(out) = DateSet(df_old) \cup DateSet(df_symbol)
        /\ Len(out.rows) = Cardinality(DateSet(out))
        /\ \A r \in 1..Len(out.rows) :
             LET d == out.rows[r][DateCol]
             IN  IF d \in DateSet(df_symbol)
                 THEN Carries(out.rows[r], LastRow(df_symbol, d))
                 ELSE Carries(out.rows[r], LastRow(df_old, d))

\* a merge where one Date is in both series, one in the prior series alone and
\* one in incoming alone
C2_Witness ==
  /\ Saved /\ existed
  /\ DateSet(df_old) \cap DateSet(df_symbol) # {}
  /\ DateSet(df_old) \ DateSet(df_symbol) # {}
  /\ DateSet(df_symbol) \ DateSet(df_old) # {}
  /\ ~StrictlyAscending(DateList(df_old))

(***************************************************************************)
(* C3.  Merging the same incoming a second time, after a first merge into   *)
(* an empty store, leaves the persisted series as the first merge left it.  *)
(***************************************************************************)
C3_Idempotent ==
  [][ ( /\ pc = "symbol" /\ pos = 2 /\ ~existed
        /\ Len(chunk) >= 2 /\ chunk[2] = chunk[1]
        /\ pos' = 3 ) => files' = files ]_vars

(***************************************************************************)
(* C7.  When the run aborts on an invalid option, no directory or file has  *)
(* been created and no retrieval call has been issued.                      *)
(***************************************************************************)
C7_AbortBeforeActivity ==
  pc \in {"usage_error", "date_error"} => (dirs = {} /\ requests = <<>>)

(***************************************************************************)
(* C8.  A symbol with no matching column in the table of its batch yields   *)
(* zero records.                                                            *)
(***************************************************************************)
C8_NoColumnsNoRecords ==
  (Saved /\ pc = "symbol" /\ NoMatchingColumns(df_chunk, symbol))
     => Len(df_symbol.rows) = 0

(***************************************************************************)
(* C10.  A pass of the for loop for one symbol leaves the file of every     *)
(* other symbol of the ticker list as it was.                               *)
(***************************************************************************)
C10_WritesIndependent ==
  [][ (pc = "symbol" /\ pos' = pos + 1) =>
        \A t \in Range(ticker_list) \ {symbol'} :
          /\ (PathOf(t) \in DOMAIN files') = (PathOf(t) \in DOMAIN files)
          /\ PathOf(t) \in DOMAIN files => files'[PathOf(t)] = files[PathOf(t)] ]_vars

(***************************************************************************)
(* Vocabulary of the batch properties.                                      *)
(***************************************************************************)
\* the number of batches of n symbols
BatchCount(n) == (n + chunk_size - 1) \div chunk_size

\* every batch of the ticker list has been requested
AllFetched == Len(requests) = BatchCount(Len(ticker_list))

\* the last request has come back empty and was skipped
Skipped ==
  /\ pc \in {"loop", "symbol", "done"}
  /\ requests # <<>>
  /\ IsEmpty(df_chunk)

(***************************************************************************)
(* C5.  A run never ends at the transport error of one batch while later    *)
(* batches of the ticker list are still to be fetched.                      *)
(***************************************************************************)
C5_RaiseIsolated == pc = "fetch_error" => AllFetched

(***************************************************************************)
(* C9.  The requests are consecutive slices of the ticker list in its       *)
(* order: together they are a prefix of it, and all of it when the loop     *)
(* ends; every request but the last has chunk_size symbols, the last from 1 *)
(* to chunk_size; n symbols give ceil(n / chunk_size) requests.             *)
(***************************************************************************)
C9_Partition ==
  /\ Flatten(requests) = SubSeq(ticker_list, 1, Len(Flatten(requests)))
  /\ \A k \in 1..Len(requests) :
       /\ Len(requests[k]) \in 1..chunk_size
       /\ k < Len(requests) => Len(requests[k]) = chunk_size
  /\ Len(requests) <= BatchCount(Len(ticker_list))
  /\ pc = "done" =>
       /\ Flatten(requests) = ticker_list
       /\ AllFetched

\* 250 symbols have been requested in batches of 100, 100 and 50
C9_Witness ==
  /\ pc = "done"
  /\ Len(ticker_list) = 250
  /\ [k \in 1..Len(requests) |-> Len(requests[k])] = <<100, 100, 50>>

(***************************************************************************)
(* C4.  When the run is terminated, every file on disk holds a complete     *)
(* series: its header and whole rows, and the file the run wrote last       *)
(* holds either the complete result of the merge or its complete previous   *)
(* content.                                                                 *)
(***************************************************************************)
WellFormed(content) ==
  /\ Readable(content)
  /\ \A k \in 2..Len(content) : Len(content[k]) = Len(content[1])

C4_KilledLeavesValidFiles ==
  pc = "killed" =>
    \A p \in DOMAIN files :
      /\ WellFormed(files[p])
      /\ p = save_path => \/ files[p] = to_csv(df)
                          \/ existed /\ files[p] = to_csv(df_old)

====
